---------------------------- MODULE Spec2Model ----------------------------
(***************************************************************************)
(* Model of app.py, the YouTube quiz generator: the memoized transcript    *)
(* fetcher (get_youtube_transcript), the memoized quiz generator           *)
(* (fetch_questions) with its response clean-up and JSON decoding, and the *)
(* Streamlit script main() with its session state.  One action is one full *)
(* run of the script, as Streamlit reruns main() from the top on every     *)
(* user interaction.                                                       *)
(***************************************************************************)
EXTENDS Integers, Sequences, FiniteSets, TLC

VARIABLES
    questions,          \* st.session_state.questions
    selected_answers,   \* st.session_state.selected_answers
    submitted,          \* st.session_state.submitted
    radio,              \* front-end state of the radio widgets "q0", "q1", ...
    tcache,             \* st.cache_data store of get_youtube_transcript
    qcache,             \* st.cache_data store of fetch_questions
    request,            \* the interaction the last run of main() handled
    messages,           \* st.error messages of the last run
    calls,              \* external calls made during the last run
    gen,                \* what fetch_questions did in the last run, if it ran
    score,              \* the "Your Score" line of the last run
    modelOut,           \* generator harness: what the model call produced
    cleaned,            \* generator harness: the text handed to json.loads
    genOut              \* generator harness: what fetch_questions did

vars == <<questions, selected_answers, submitted, radio, tcache, qcache,
          request, messages, calls, gen, score, modelOut, cleaned, genOut>>

sessionVars == <<questions, selected_answers, submitted, radio, tcache, qcache,
                 request, messages, calls, gen, score>>

harnessVars == <<modelOut, cleaned, genOut>>

-----------------------------------------------------------------------------
(* Bounds of the model. *)

\* Longest question list the model service returns.
MaxQuestions == 2

-----------------------------------------------------------------------------
(* Text: a Python str is a sequence of characters, each a string. *)

Whitespace == {" ", "\n"}

RECURSIVE LStrip(_)
LStrip(s) ==
    IF s = <<>> THEN s
    ELSE IF Head(s) \in Whitespace THEN LStrip(Tail(s)) ELSE s

RECURSIVE RStrip(_)
RStrip(s) ==
    IF s = <<>> THEN s
    ELSE IF s[Len(s)] \in Whitespace THEN RStrip(SubSeq(s, 1, Len(s) - 1)) ELSE s

\* str.strip()
Strip(s) == RStrip(LStrip(s))

\* str.startswith / str.endswith
StartsWith(s, p) == Len(s) >= Len(p) /\ SubSeq(s, 1, Len(p)) = p

EndsWith(s, p) == Len(s) >= Len(p) /\ SubSeq(s, Len(s) - Len(p) + 1, Len(s)) = p

\* s[n:] and s[:-n]
DropFirst(s, n) == SubSeq(s, n + 1, Len(s))

DropLast(s, n) == SubSeq(s, 1, Len(s) - n)

\* The grave accent (U+0060), which a TLA+ string literal cannot hold.
Backtick == "<grave>"

FenceOpen == <<Backtick, Backtick, Backtick, "j", "s", "o", "n">>

FenceClose == <<Backtick, Backtick, Backtick>>

\* The slice offsets of lines 68 and 70.
FenceOpenCut == 7

FenceCloseCut == 3

StripOpenWrongCut(s) ==
    IF StartsWith(s, FenceOpen) THEN DropFirst(s, FenceOpenCut - 1) ELSE s

StripOpen(s) == IF StartsWith(s, FenceOpen) THEN DropFirst(s, FenceOpenCut) ELSE s

StripClose(s) == IF EndsWith(s, FenceClose) THEN DropLast(s, FenceCloseCut) ELSE s

\* Lines 64-70: strip, then the two fixed-offset cuts, in this order.
CleanResponse(content) == StripClose(StripOpen(Strip(content)))


-----------------------------------------------------------------------------
(* Question records and the JSON documents the model service can return. *)

Opt(k, v) == [k |-> k, v |-> v]

\* The "options" object of a record, in document order (a Python dict keeps it).
StdOptions == <<Opt("a", "x"), Opt("b", "y")>>

\* "correct" may name a key of "options" or not: nothing constrains the model.
CorrectLabels == {"a", "b", "e"}

Records == {[mcq |-> "q", options |-> StdOptions, correct |-> c] : c \in CorrectLabels}

QuestionLists == UNION {[1..n -> Records] : n \in 0..MaxQuestions}

\* Python values json.loads can produce here: a dict with or without the key
\* "mcqs", a list, an int.
NoValue == [type |-> "none", hasMcqs |-> FALSE, mcqs |-> <<>>]

JsonValues ==
    {[type |-> "dict", hasMcqs |-> TRUE, mcqs |-> l] : l \in QuestionLists}
    \cup {[type |-> "dict", hasMcqs |-> FALSE, mcqs |-> <<>>],
          [type |-> "list", hasMcqs |-> FALSE, mcqs |-> <<>>],
          [type |-> "int", hasMcqs |-> FALSE, mcqs |-> <<>>]}

Quote == "\""

Quoted(w) == <<Quote>> \o w \o <<Quote>>

RECURSIVE Join(_, _)
Join(parts, sep) ==
    IF parts = <<>> THEN <<>>
    ELSE IF Len(parts) = 1 THEN parts[1]
    ELSE parts[1] \o sep \o Join(Tail(parts), sep)

DumpOptions(o) ==
    <<"{">>
    \o Join([i \in 1..Len(o) |-> Quoted(<<o[i].k>>) \o <<":">> \o Quoted(<<o[i].v>>)], <<",">>)
    \o <<"}">>

DumpRecord(r) ==
    <<"{">> \o Quoted(<<"m", "c", "q">>) \o <<":">> \o Quoted(<<r.mcq>>)
    \o <<",">> \o Quoted(<<"o", "p", "t", "i", "o", "n", "s">>) \o <<":">> \o DumpOptions(r.options)
    \o <<",">> \o Quoted(<<"c", "o", "r", "r", "e", "c", "t">>) \o <<":">> \o Quoted(<<r.correct>>)
    \o <<"}">>

\* The JSON text of a value, written compactly.
Dump(v) ==
    CASE v.type = "dict" /\ v.hasMcqs ->
            <<"{">> \o Quoted(<<"m", "c", "q", "s">>) \o <<":", "[">>
            \o Join([i \in 1..Len(v.mcqs) |-> DumpRecord(v.mcqs[i])], <<",">>)
            \o <<"]", "}">>
      [] v.type = "dict" /\ ~v.hasMcqs -> <<"{", "}">>
      [] v.type = "list" -> <<"[", "]">>
      [] OTHER -> <<"7">>

DumpTable == [v \in JsonValues |-> Dump(v)]

\* json.loads: whitespace around the document is skipped; a text that is no
\* JSON document raises JSONDecodeError.
JsonLoads(s) ==
    LET t == Strip(s)
        hits == {v \in JsonValues : DumpTable[v] = t}
    IN  IF hits = {} THEN [ok |-> FALSE, value |-> NoValue]
        ELSE [ok |-> TRUE, value |-> CHOOSE v \in hits : TRUE]

\* dict.get("mcqs", [])
GetMcqs(v) == IF v.hasMcqs THEN v.mcqs ELSE <<>>

-----------------------------------------------------------------------------
(* What the chat completion call can produce. *)

\* Whitespace around the whole text, and inside the fence.
Pads == {<<>>, <<" ">>, <<"\n">>, <<"\n", " ">>}

InnerPads == {<<>>, <<"\n">>}

Prefixes == {<<>>, FenceOpen, FenceClose, <<Backtick, Backtick, Backtick, "j", "s", "o">>}

Suffixes == {<<>>, FenceClose, <<Backtick, Backtick>>, FenceClose \o <<Backtick>>}

\* Empty, truncated and non-JSON bodies.
Malformed ==
    {<<>>,
     <<"{">> \o Quoted(<<"m", "c", "q", "s">>) \o <<":", "[">>,
     <<"o", "o", "p", "s">>}

Bodies == {DumpTable[v] : v \in JsonValues} \cup Malformed

RawTexts ==
    {p1 \o pre \o p2 \o body \o p3 \o suf \o p4 :
        p1 \in Pads, pre \in Prefixes, p2 \in InnerPads, body \in Bodies,
        p3 \in InnerPads, suf \in Suffixes, p4 \in Pads}

\* The call raises (network, auth, timeout), or the choice carries no content,
\* or it carries a text.
ModelOutcomes ==
    {[kind |-> "raise", text |-> <<>>], [kind |-> "nocontent", text |-> <<>>]}
    \cup {[kind |-> "text", text |-> t] : t \in RawTexts}

-----------------------------------------------------------------------------
(* fetch_questions, lines 23-82. *)

MsgDecode == "Failed to decode the response from OpenAI. Please try again."

MsgFetchError == "An error occurred while fetching questions. Please try again."

NoMsg == ""

TryBlockSubscript(o) ==
    IF o.kind = "raise" THEN [exc |-> "APIError", result |-> <<>>, parsed |-> NoValue]
    ELSE IF o.kind = "nocontent"
    THEN [exc |-> "AttributeError", result |-> <<>>, parsed |-> NoValue]
    ELSE LET p == JsonLoads(CleanResponse(o.text))
         IN  IF ~p.ok THEN [exc |-> "JSONDecodeError", result |-> <<>>, parsed |-> NoValue]
             ELSE IF p.value.type # "dict"
             THEN [exc |-> "AttributeError", result |-> <<>>, parsed |-> p.value]
             ELSE IF ~p.value.hasMcqs
             THEN [exc |-> "KeyError", result |-> <<>>, parsed |-> p.value]
             ELSE [exc |-> "none", result |-> p.value.mcqs, parsed |-> p.value]

\* The try block, lines 52-73: the value returned or the exception raised.
TryBlock(o) ==
    IF o.kind = "raise" THEN [exc |-> "APIError", result |-> <<>>, parsed |-> NoValue]
    ELSE IF o.kind = "nocontent"
    THEN [exc |-> "AttributeError", result |-> <<>>, parsed |-> NoValue]
    ELSE LET p == JsonLoads(CleanResponse(o.text))
         IN  IF ~p.ok THEN [exc |-> "JSONDecodeError", result |-> <<>>, parsed |-> NoValue]
             ELSE IF p.value.type # "dict"
             THEN [exc |-> "AttributeError", result |-> <<>>, parsed |-> p.value]
             ELSE [exc |-> "none", result |-> GetMcqs(p.value), parsed |-> p.value]

FetchQuestionsNoCatchAll(o) ==
    LET b == TryBlock(o)
    IN  CASE b.exc = "none" ->
                [result |-> b.result, msg |-> NoMsg, path |-> "return",
                 raised |-> FALSE, parsed |-> b.parsed]
          [] b.exc = "JSONDecodeError" ->
                [result |-> <<>>, msg |-> MsgDecode, path |-> "except JSONDecodeError",
                 raised |-> FALSE, parsed |-> b.parsed]
          [] OTHER ->
                [result |-> <<>>, msg |-> NoMsg, path |-> "unhandled",
                 raised |-> TRUE, parsed |-> b.parsed]

\* The function with its two handlers, lines 74-82.
FetchQuestions(o) ==
    LET b == TryBlock(o)
    IN  CASE b.exc = "none" ->
                [result |-> b.result, msg |-> NoMsg, path |-> "return",
                 raised |-> FALSE, parsed |-> b.parsed]
          [] b.exc = "JSONDecodeError" ->
                [result |-> <<>>, msg |-> MsgDecode, path |-> "except JSONDecodeError",
                 raised |-> FALSE, parsed |-> b.parsed]
          [] OTHER ->
                [result |-> <<>>, msg |-> MsgFetchError, path |-> "except Exception",
                 raised |-> FALSE, parsed |-> b.parsed]

NotRun ==
    [result |-> <<>>, msg |-> NoMsg, path |-> "not run", raised |-> FALSE, parsed |-> NoValue]

NoText == [given |-> FALSE, text |-> <<>>]

-----------------------------------------------------------------------------
(* The inputs of main() and the outcomes of the transcript loader. *)

\* The text input of line 118: empty, or the URL of a video.
VideoUrls == {"u1"}

Urls == VideoUrls \cup {""}

\* Line 121-122, lower-cased.
Levels == {"easy", "hard"}

\* Line 125: the slider starts at 3.
SliderMin == 3

Nums == {SliderMin}

Transcripts == {"t1"}

\* YoutubeLoader raises, loads no document, or loads one with a text.
LoaderOutcomes ==
    {[kind |-> "raise", text |-> ""], [kind |-> "nodocs", text |-> ""]}
    \cup {[kind |-> "doc", text |-> t] : t \in Transcripts}

\* Every behaviour fetch_questions can show, over all model outcomes.
GenOutcomes == {FetchQuestions(o) : o \in ModelOutcomes}

MsgNoUrl == "Please enter a valid YouTube URL."

MsgTranscriptFetch == "Failed to fetch YouTube transcript."

MsgNoTranscript == "Could not fetch transcript. Please check the URL or try another video."

MsgFailedQuiz == "Failed to generate quiz. Please try again."

MsgException == "uncaught exception"

\* Python's None in an answer slot.
NoneVal == "<None>"

NoScore == [kind |-> "none", marks |-> 0, total |-> 0]

Miss == [hit |-> FALSE, value |-> "", msgs |-> {}]

QMiss == [hit |-> FALSE, value |-> <<>>, msgs |-> {}]

QKeys == Transcripts \X Levels \X Nums

-----------------------------------------------------------------------------
(* get_youtube_transcript, lines 85-97, and the st.cache_data wrappers. *)

\* The function body: the value returned and the st.error it emits.
TranscriptBody(lo) ==
    IF lo.kind = "raise" THEN [value |-> "", msgs |-> {MsgTranscriptFetch}]
    ELSE IF lo.kind = "nodocs" THEN [value |-> "", msgs |-> {}]
    ELSE [value |-> lo.text, msgs |-> {}]

\* @st.cache_data, line 85: a stored return value is replayed, with the
\* messages the body emitted; otherwise the body runs and what it returns is
\* stored, whatever it is.
CachedTranscript(cache, url, lo) ==
    IF cache[url].hit
    THEN [value |-> cache[url].value, msgs |-> cache[url].msgs, called |-> FALSE,
          cache |-> cache]
    ELSE LET b == TranscriptBody(lo)
         IN  [value |-> b.value, msgs |-> b.msgs, called |-> TRUE,
              cache |-> [cache EXCEPT ![url] =
                            [hit |-> TRUE, value |-> b.value, msgs |-> b.msgs]]]

\* @st.cache_data, line 22.  go is what the body does if it runs.  A body that
\* raises stores nothing.
CachedQuestions(cache, key, go) ==
    IF cache[key].hit
    THEN [value |-> cache[key].value, msgs |-> cache[key].msgs, called |-> FALSE,
          raised |-> FALSE, cache |-> cache,
          gen |-> [result |-> cache[key].value, msg |-> NoMsg, path |-> "cache hit",
                   raised |-> FALSE, parsed |-> NoValue]]
    ELSE [value |-> go.result,
          msgs |-> IF go.msg = NoMsg THEN {} ELSE {go.msg},
          called |-> TRUE, raised |-> go.raised,
          cache |-> IF go.raised THEN cache
                    ELSE [cache EXCEPT ![key] =
                             [hit |-> TRUE, value |-> go.result,
                              msgs |-> IF go.msg = NoMsg THEN {} ELSE {go.msg}]],
          gen |-> go]

-----------------------------------------------------------------------------
(* main(), lines 100-184.  A stage takes and returns the session as a record. *)

\* list(question["options"].values()), line 158
OptionTexts(q) == [j \in 1..Len(q.options) |-> q.options[j].v]

\* list.index, 0-based: the first position holding x.
IndexOf(texts, x) ==
    (CHOOSE j \in 1..Len(texts) : texts[j] = x /\ \A k \in 1..(j - 1) : texts[k] # x) - 1

\* The truth value of an answer slot, line 162.
Truthy(a) == a # NoneVal /\ a # ""

\* The index argument of st.radio, line 162.
IndexParam(q, a) == IF Truthy(a) THEN IndexOf(OptionTexts(q), a) ELSE 0

\* Position (0-based) the radio "q<i-1>" shows in this run: the one the front
\* end holds for that key if it holds one the options admit, else the index
\* argument.
RadioPosition(q, a, widgets, i) ==
    IF i <= Len(widgets) /\ widgets[i] < Len(q.options) THEN widgets[i]
    ELSE IndexParam(q, a)

\* "correct" in options / options[correct], line 177
HasKey(options, label) == \E j \in 1..Len(options) : options[j].k = label

Lookup(options, label) ==
    options[CHOOSE j \in 1..Len(options) : options[j].k = label].v

\* Lines 173-184: the loop from question i on; a missing key raises KeyError
\* and no score line is written.
RECURSIVE ScoreFromLabels(_, _, _, _)
ScoreFromLabels(qs, sel, i, marks) ==
    IF i > Len(qs) THEN [kind |-> "reported", marks |-> marks, total |-> Len(qs)]
    ELSE IF ~HasKey(qs[i].options, qs[i].correct)
    THEN [kind |-> "KeyError", marks |-> 0, total |-> 0]
    ELSE ScoreFromLabels(qs, sel, i + 1,
             marks + (IF sel[i] = qs[i].correct THEN 1 ELSE 0))

RECURSIVE ScoreFrom(_, _, _, _)
ScoreFrom(qs, sel, i, marks) ==
    IF i > Len(qs) THEN [kind |-> "reported", marks |-> marks, total |-> Len(qs)]
    ELSE IF ~HasKey(qs[i].options, qs[i].correct)
    THEN [kind |-> "KeyError", marks |-> 0, total |-> 0]
    ELSE ScoreFrom(qs, sel, i + 1,
             marks + (IF sel[i] = Lookup(qs[i].options, qs[i].correct) THEN 1 ELSE 0))

\* Lines 172-184.
ResultsStage(s) ==
    IF s.submitted
    THEN [s EXCEPT !.score = ScoreFrom(s.questions, s.selected_answers, 1, 0)]
    ELSE s

DisplayStageSubmitAnywhere(s, click, widgets) ==
    LET d == IF s.questions # <<>>
             THEN LET pos == [i \in 1..Len(s.questions) |->
                                 RadioPosition(s.questions[i], s.selected_answers[i],
                                               widgets, i)]
                  IN  [s EXCEPT
                          !.selected_answers =
                              [i \in 1..Len(s.questions) |->
                                  OptionTexts(s.questions[i])[pos[i] + 1]],
                          !.radio = pos]
             ELSE s
    IN  [d EXCEPT !.submitted = IF click = "submit" THEN TRUE ELSE s.submitted]

\* Lines 155-169: every radio is drawn and its value stored in the slot; the
\* Submit button exists only here.
DisplayStage(s, click, widgets) ==
    IF s.questions # <<>>
    THEN LET pos == [i \in 1..Len(s.questions) |->
                        RadioPosition(s.questions[i], s.selected_answers[i], widgets, i)]
         IN  [s EXCEPT
                 !.selected_answers =
                     [i \in 1..Len(s.questions) |-> OptionTexts(s.questions[i])[pos[i] + 1]],
                 !.radio = pos,
                 !.submitted = IF click = "submit" THEN TRUE ELSE s.submitted]
    ELSE s

\* Lines 128-152.  returned: main() returned (or raised) before line 154.
GenerateStage(s, url, level, num, lo, go) ==
    IF url = ""
    THEN [s EXCEPT !.returned = TRUE, !.messages = {MsgNoUrl}]
    ELSE
    LET t  == CachedTranscript(s.tcache, url, lo)
        s1 == [s EXCEPT !.tcache = t.cache, !.messages = t.msgs,
                        !.calls = IF t.called THEN {"loader"} ELSE {}]
    IN  IF t.value = ""
        THEN [s1 EXCEPT !.returned = TRUE, !.messages = @ \cup {MsgNoTranscript}]
        ELSE
        LET f  == CachedQuestions(s.qcache, <<t.value, level, num>>, go)
            s2 == [s1 EXCEPT !.qcache = f.cache, !.messages = @ \cup f.msgs,
                             !.calls = @ \cup (IF f.called THEN {"openai"} ELSE {}),
                             !.gen = f.gen]
        IN  IF f.raised
            THEN [s2 EXCEPT !.returned = TRUE, !.messages = @ \cup {MsgException}]
            ELSE IF f.value = <<>>
            THEN [s2 EXCEPT !.returned = TRUE, !.messages = @ \cup {MsgFailedQuiz}]
            ELSE [s2 EXCEPT !.questions = f.value,
                            !.selected_answers = [i \in 1..Len(f.value) |-> NoneVal],
                            !.submitted = FALSE]

\* The session as one run of main() finds it: the outputs of the previous run
\* are gone, and no widget has been drawn yet.
RunStart(click) ==
    [questions |-> questions, selected_answers |-> selected_answers,
     submitted |-> submitted, radio |-> <<>>, tcache |-> tcache, qcache |-> qcache,
     request |-> click, messages |-> {}, calls |-> {}, gen |-> NotRun,
     score |-> NoScore, returned |-> FALSE]

\* One run of main().  widgets: what the front end holds for the radio keys
\* when the run starts.
Main(click, url, level, num, lo, go, widgets) ==
    LET s0 == RunStart(click)
        s1 == IF click = "generate" THEN GenerateStage(s0, url, level, num, lo, go) ELSE s0
    IN  IF s1.returned THEN s1
        ELSE ResultsStage(DisplayStage(s1, click, widgets))

Commit(s) ==
    /\ questions' = s.questions
    /\ selected_answers' = s.selected_answers
    /\ submitted' = s.submitted
    /\ radio' = s.radio
    /\ tcache' = s.tcache
    /\ qcache' = s.qcache
    /\ request' = s.request
    /\ messages' = s.messages
    /\ calls' = s.calls
    /\ gen' = s.gen
    /\ score' = s.score

-----------------------------------------------------------------------------
(* The session: one action per interaction, each a full run of main(). *)

\* Lines 110-115, before the first interaction.
SessionInit ==
    /\ questions = <<>>
    /\ selected_answers = <<>>
    /\ submitted = FALSE
    /\ radio = <<>>
    /\ tcache = [u \in VideoUrls |-> Miss]
    /\ qcache = [k \in QKeys |-> QMiss]
    /\ request = "none"
    /\ messages = {}
    /\ calls = {}
    /\ gen = NotRun
    /\ score = NoScore

HarnessIdle ==
    /\ modelOut = [kind |-> "raise", text |-> <<>>]
    /\ cleaned = NoText
    /\ genOut = NotRun

Init == SessionInit /\ HarnessIdle

\* The external outcomes a run of main() can consume: the loader is called
\* only when get_youtube_transcript misses its cache, the model only when the
\* transcript is non-empty and fetch_questions misses its cache.
NoLoad == [kind |-> "raise", text |-> ""]

LoaderChoices(url) ==
    IF url \in VideoUrls /\ ~tcache[url].hit THEN LoaderOutcomes ELSE {NoLoad}

GenChoices(url, level, num, lo) ==
    IF url \notin VideoUrls THEN {NotRun}
    ELSE LET t == CachedTranscript(tcache, url, lo).value
         IN  IF t # "" /\ ~qcache[<<t, level, num>>].hit THEN GenOutcomes ELSE {NotRun}

\* The user clicks "Generate Quiz".  kept: whether the front end keeps the
\* state of the radio keys when the questions under them are replaced.
Generate ==
    \E url \in Urls, level \in Levels, num \in Nums :
        \E lo \in LoaderChoices(url) :
            \E go \in GenChoices(url, level, num, lo) :
                \E kept \in (IF radio = <<>> THEN {FALSE} ELSE BOOLEAN) :
                    /\ Commit(Main("generate", url, level, num, lo, go,
                                   IF kept THEN radio ELSE <<>>))
                    /\ UNCHANGED harnessVars

\* The user picks option j of question i; the radio must be on the page.
SelectAnswer ==
    \E i \in 1..Len(radio) :
        \E j \in 0..(Len(questions[i].options) - 1) :
            /\ j # radio[i]
            /\ Commit(Main("select", "", "easy", SliderMin,
                           NoLoad, NotRun,
                           [radio EXCEPT ![i] = j]))
            /\ UNCHANGED harnessVars

\* The user asks to submit.
Submit ==
    /\ Commit(Main("submit", "", "easy", SliderMin,
                   NoLoad, NotRun, radio))
    /\ UNCHANGED harnessVars

\* Any other interaction (the URL box, the level, the slider) reruns main().
Rerun ==
    /\ Commit(Main("rerun", "", "easy", SliderMin,
                   NoLoad, NotRun, radio))
    /\ UNCHANGED harnessVars

Next == Generate \/ SelectAnswer \/ Submit \/ Rerun

Spec == Init /\ [][Next]_vars

-----------------------------------------------------------------------------
(* The generator alone, over every model outcome. *)

InitGen ==
    /\ SessionInit
    /\ modelOut \in ModelOutcomes
    /\ cleaned = NoText
    /\ genOut = NotRun

\* One call of fetch_questions on the outcome drawn.
CallGenerator ==
    /\ genOut.path = "not run"
    /\ genOut' = FetchQuestions(modelOut)
    /\ cleaned' = IF modelOut.kind = "text"
                  THEN [given |-> TRUE, text |-> CleanResponse(modelOut.text)]
                  ELSE NoText
    /\ UNCHANGED modelOut
    /\ UNCHANGED sessionVars

NextGen == CallGenerator

SpecGen == InitGen /\ [][NextGen]_vars

-----------------------------------------------------------------------------
(* Properties. *)

\* The last run handled a Generate click whose (memoized) generator call
\* returned at least one question.
GenerateSucceeded == request = "generate" /\ gen.result # <<>>

\* The last run handled a Generate click and ended on the transcript or the
\* quiz failure of lines 137-139 and 145-147.
GenerateFailed ==
    request = "generate" /\ (MsgNoTranscript \in messages \/ MsgFailedQuiz \in messages)

\* C1: after a Generate request that yields at least one question has been
\* handled, questions is the generated list, every answer slot is unset, and
\* submitted is false.
C1_GenerateResetsSession ==
    GenerateSucceeded =>
        /\ questions = gen.result
        /\ Len(selected_answers) = Len(questions)
        /\ \A i \in 1..Len(selected_answers) : selected_answers[i] = NoneVal
        /\ submitted = FALSE

\* C2: a Generate request that fails, from whatever session state, leaves the
\* session Empty: no questions, no answers, not submitted.
C2_FailedGenerateEmptiesSession ==
    GenerateFailed =>
        /\ questions = <<>>
        /\ selected_answers = <<>>
        /\ submitted = FALSE

\* C3: submitted is true only with questions present, and a submit request in
\* the Empty state leaves submitted false.
C3_SubmitNeedsQuestions ==
    /\ submitted => questions # <<>>
    /\ (request = "submit" /\ questions = <<>>) => ~submitted

\* A submit request was handled in the Empty state.
C3_Witness == request = "submit" /\ questions = <<>> /\ ~submitted

\* C4: once the session is submitted, a select-answer action changes no slot
\* of selected_answers.
C4_NoEditAfterSubmit ==
    [][(submitted /\ request' = "select") => selected_answers' = selected_answers]_vars

\* The indices whose stored answer is the text of the correct option.
Matches ==
    {i \in 1..Len(questions) :
        /\ HasKey(questions[i].options, questions[i].correct)
        /\ selected_answers[i] = Lookup(questions[i].options, questions[i].correct)}

AllLabelsValid ==
    \A i \in 1..Len(questions) : HasKey(questions[i].options, questions[i].correct)

\* C5: the score a submitted session reports has as numerator the number of
\* indices whose stored answer equals the correct option's text, and as
\* denominator the number of questions; a run that draws the results of a
\* submitted session whose labels are all valid reports a score.
C5_ScoreCountsMatchingTexts ==
    /\ score.kind = "reported" =>
          /\ submitted
          /\ score.marks = Cardinality(Matches)
          /\ score.total = Len(questions)
          /\ \A i \in Matches : selected_answers[i] # NoneVal
    /\ (submitted /\ AllLabelsValid /\ request \in {"submit", "select", "rerun"}) =>
          score.kind = "reported"

\* A score strictly between nothing and everything right was reported.
C5_Witness ==
    score.kind = "reported" /\ 0 < score.marks /\ score.marks < score.total

\* C6: every record held in questions has its correct label among the keys of
\* its options.
C6_CorrectLabelIsAnOption == AllLabelsValid

\* The sanitized text is a JSON document.
Parseable(t) == \E v \in JsonValues : DumpTable[v] = Strip(t)

C8_FenceStripIsExact ==
    cleaned.given =>
        LET s == Strip(modelOut.text)
            hasOpen == Len(s) >= 7 /\ SubSeq(s, 1, 7) = FenceOpen
            rest == IF hasOpen THEN SubSeq(s, 8, Len(s)) ELSE s
            hasClose == Len(rest) >= 3 /\ SubSeq(rest, Len(rest) - 2, Len(rest)) = FenceClose
        IN  /\ s = (IF hasOpen THEN SubSeq(s, 1, 7) ELSE <<>>)
                   \o cleaned.text
                   \o (IF hasClose THEN SubSeq(s, Len(s) - 2, Len(s)) ELSE <<>>)
            /\ Len(cleaned.text) =
                   Len(s) - (IF hasOpen THEN 7 ELSE 0) - (IF hasClose THEN 3 ELSE 0)
            /\ (~hasOpen /\ ~hasClose) => cleaned.text = s

\* A text under 10 characters with the opening marker only lost just that.
C8_Witness ==
    /\ cleaned.given
    /\ Len(modelOut.text) < 10
    /\ StartsWith(modelOut.text, FenceOpen)
    /\ cleaned.text # <<>>
    /\ modelOut.text = FenceOpen \o cleaned.text

\* C9: a Generate request that ends on a failure has made the external call
\* behind that failure in this very run: no failure is replayed from the
\* memoization of the fetcher or the generator.
C9_FailuresAreNotReplayed ==
    request = "generate" =>
        /\ MsgNoTranscript \in messages => "loader" \in calls
        /\ MsgFailedQuiz \in messages => "openai" \in calls

\* fetch_questions ran in the last run and parsed a JSON object without "mcqs".
NoMcqsKeyRun ==
    request = "generate" /\ gen.parsed.type = "dict" /\ ~gen.parsed.hasMcqs

SessionEmpty == questions = <<>> /\ selected_answers = <<>> /\ submitted = FALSE

\* C10: on a JSON object without "mcqs" the generator returns the empty list
\* on its normal path, with no handler message; the run reports the failed
\* to generate message; and an Empty session is Empty afterwards.
C10_MissingMcqsKey ==
    /\ [](NoMcqsKeyRun =>
            /\ gen.result = <<>>
            /\ gen.path = "return"
            /\ gen.msg = NoMsg
            /\ messages = {MsgFailedQuiz})
    /\ [][(SessionEmpty /\ NoMcqsKeyRun') => SessionEmpty']_vars

\* Such a run happened on an Empty session.
C10_Witness == NoMcqsKeyRun /\ SessionEmpty /\ MsgFailedQuiz \in messages

=============================================================================
